---- MODULE Spec2Model ----
(***************************************************************************)
(* Model of GapVec<T> (src/src/lib.rs): a growable array with a movable    *)
(* gap.  Raw storage is a sequence of slots; slot r of the code (0-based)  *)
(* is buf[r + 1].  Elements are identified by the order of their insertion *)
(* (the k-th inserted element is k), so that moves, duplicates and losses  *)
(* of elements are visible.                                                *)
(***************************************************************************)
EXTENDS Integers, Sequences, FiniteSets, TLC

\* ---------------------------------------------------------------- bounds
MaxInitCap == 1        \* largest argument given to with_capacity
MaxIns == 4            \* total number of elements ever inserted
MaxTripIns == 8        \* the same, in the round-trip scenario
MaxIter == 2           \* longest iterable given to insert_iter
MaxSetPos == 2         \* total number of set_position calls
WordBits == 4          \* width of usize in the model

Word == 2 ^ WordBits

\* ------------------------------------------------------ program constants
MinCapacity == 4       \* capacity chosen by enlarge_gap when doubling gives 0
GrowthFactor == 2      \* enlarge_gap doubles

\* Content of a slot no element was ever written to (fresh allocation, or a
\* read past the end of the allocation): indeterminate bits.
Uninit == 0 - 1

\* What a read of a slot can observe: the element in it, or for indeterminate
\* bits any bit pattern (0 is the pattern of no inserted element).
Observe(v) == IF v = Uninit THEN 0 .. MaxIns ELSE {v}

\* Option<T>
None == << >>
Some(x) == << x >>

VARIABLES
    buf,       \* self.buf: the raw storage, Len(buf) = self.buf.cap()
    gap,       \* self.gap: [start, end), a Range<usize>
    alive,     \* FALSE once the buffer has been dropped
    last,      \* the last call: its name, argument, result, panic, growth
    origin,    \* the constructor call that made the buffer
    nIns,      \* number of insert calls so far
    nRem,      \* number of remove calls that returned Some
    nSetPos,   \* number of set_position calls so far
    arr,       \* a plain array receiving the same inserts and removes
    removed,   \* the slot contents remove() moved out to the caller, in order
    dropped,   \* the slots Drop destroyed, in order
    hist       \* shape of the call history so far

vars == << buf, gap, alive, last, origin, nIns, nRem, nSetPos, arr, removed, dropped, hist >>

Self == [buf |-> buf, gap |-> gap]

\* ------------------------------------------------------------ the program

\* Range<usize>::len
range_len(r) == IF r.start < r.end THEN r.end - r.start ELSE 0

new == [buf |-> << >>, gap |-> [start |-> 0, end |-> 0]]

with_capacity(n) ==
    [buf |-> [i \in 1 .. n |-> Uninit], gap |-> [start |-> 0, end |-> 0]]

capacity(self) == Len(self.buf)

len(self) == capacity(self) - range_len(self.gap)

position(self) == self.gap.start

\* *self.space(index): the slot at raw offset index; past the allocation the
\* read yields indeterminate bits.
space(self, index) ==
    IF index < capacity(self) THEN self.buf[index + 1] ELSE Uninit

\* index + self.gap.len() in usize arithmetic
index_overflows(self, index) ==
    index >= self.gap.start /\ index + range_len(self.gap) >= Word

index_to_raw(self, index) ==
    IF index < self.gap.start
    THEN index
    ELSE (index + range_len(self.gap)) % Word

\* get: Some(slot content) or None
get(self, index) ==
    LET raw == index_to_raw(self, index)
    IN  IF raw < capacity(self) THEN Some(space(self, raw)) ELSE None

\* ptr::copy(src, dst, count) on the slots of b (memmove semantics)
ptr_copy(b, src, dst, count) ==
    [i \in 1 .. Len(b) |->
        IF dst < i /\ i <= dst + count
        THEN IF src + (i - dst) <= Len(b) THEN b[src + (i - dst)] ELSE Uninit
        ELSE b[i]]

\* ptr::copy(src, dst, count) touches a raw offset outside [0, c)
copy_oob(c, src, dst, count) ==
    count > 0 /\ (src + count > c \/ dst + count > c)

\* source offset of the block set_position moves when pos > gap.start
right_src(g, pos) == pos

\* a slip: the block is left where it is
left_dst_mut(g, pos) == pos

\* destination offset of the block set_position moves when pos < gap.start
left_dst(g, pos) == g.end - (g.start - pos)

\* a slip: off by one, pos = len refused
pos_out_of_range_mut(self, pos) == pos >= len(self)

\* the check that opens set_position
pos_out_of_range(self, pos) == pos > len(self)

set_position(self, pos) ==
    IF pos_out_of_range(self, pos)
    THEN [self |-> self, panicked |-> TRUE, oob |-> FALSE]
    ELSE LET g == self.gap
             b == IF pos > g.start
                  THEN ptr_copy(self.buf, right_src(g, pos), g.start,
                                pos - g.start)
                  ELSE IF pos < g.start
                       THEN ptr_copy(self.buf, pos, left_dst(g, pos),
                                     g.start - pos)
                       ELSE self.buf
         IN  [self |-> [buf |-> b,
                        gap |-> [start |-> pos, end |-> pos + range_len(g)]],
              panicked |-> FALSE,
              oob |-> IF pos > g.start
                      THEN copy_oob(capacity(self), right_src(g, pos), g.start,
                                    pos - g.start)
                      ELSE IF pos < g.start
                           THEN copy_oob(capacity(self), pos, left_dst(g, pos),
                                         g.start - pos)
                           ELSE FALSE]

\* a slip: the new capacity is max(4, 2 * c)
new_capacity_max(c) == IF c * GrowthFactor < MinCapacity THEN MinCapacity ELSE c * GrowthFactor

\* a slip: the capacity is halved instead of doubled
new_capacity_halved(c) == IF c \div GrowthFactor = 0 THEN MinCapacity ELSE c \div GrowthFactor

new_capacity(c) == IF c * GrowthFactor = 0 THEN MinCapacity ELSE c * GrowthFactor

\* a slip: the old storage is copied as one block, the elements after the
\* gap stay at their old offsets
enlarge_gap_front(self) ==
    LET nc == new_capacity(capacity(self))
        after_gap == capacity(self) - self.gap.end
        new_gap == [start |-> self.gap.start, end |-> nc - after_gap]
        new_buf == [i \in 1 .. nc |->
                       IF i <= capacity(self) THEN self.buf[i] ELSE Uninit]
    IN  [buf |-> new_buf, gap |-> new_gap]

\* a slip: the block after the gap is not copied to the new storage
enlarge_gap_mut(self) ==
    LET nc == new_capacity(capacity(self))
        after_gap == capacity(self) - self.gap.end
        new_gap == [start |-> self.gap.start, end |-> nc - after_gap]
        new_buf == [i \in 1 .. nc |->
                       IF i <= self.gap.start THEN self.buf[i] ELSE Uninit]
    IN  [buf |-> new_buf, gap |-> new_gap]

enlarge_gap(self) ==
    LET nc == new_capacity(capacity(self))
        after_gap == capacity(self) - self.gap.end
        new_gap == [start |-> self.gap.start, end |-> nc - after_gap]
        new_buf == [i \in 1 .. nc |->
                       IF i <= self.gap.start
                       THEN self.buf[i]
                       ELSE IF i > new_gap.end
                            THEN self.buf[self.gap.end + (i - new_gap.end)]
                            ELSE Uninit]
    IN  [buf |-> new_buf, gap |-> new_gap]

\* a slip: the gap is set before the new storage is allocated
alloc_failed_mut(self) ==
    [buf |-> self.buf,
     gap |-> [start |-> self.gap.start,
              end |-> new_capacity(capacity(self)) - (capacity(self) - self.gap.end)]]

\* enlarge_gap when RawVec::with_capacity does not return (allocation
\* failure, capacity overflow): the buffer at that point.  Only the local
\* new_capacity was computed before.
alloc_failed(self) == self

\* the test that opens insert
gap_is_empty(self) == range_len(self.gap) = 0

insert(self, element) ==
    LET s == IF gap_is_empty(self) THEN enlarge_gap(self) ELSE self
        index == s.gap.start
    IN  [buf |-> [s.buf EXCEPT ![index + 1] = element],
         gap |-> [start |-> s.gap.start + 1, end |-> s.gap.end]]

RECURSIVE insert_iter(_, _)
insert_iter(self, items) ==
    IF items = << >>
    THEN self
    ELSE insert_iter(insert(self, Head(items)), Tail(items))

\* a slip: the slot at the start of the gap is read
remove_slot_mut(self) == self.gap.start

\* raw offset of the slot remove reads
remove_slot(self) == self.gap.end

\* a slip: the test for an exhausted tail is missing
remove_unchecked(self) ==
    [self |-> [buf |-> self.buf,
               gap |-> [start |-> self.gap.start, end |-> self.gap.end + 1]],
     ret |-> Some(space(self, remove_slot(self)))]

remove(self) ==
    IF self.gap.end = capacity(self)
    THEN [self |-> self, ret |-> None]
    ELSE [self |-> [buf |-> self.buf,
                    gap |-> [start |-> self.gap.start,
                             end |-> self.gap.end + 1]],
          ret |-> Some(space(self, remove_slot(self)))]

\* Drop: the slots handed to drop_in_place, in order
drop(self) ==
    SubSeq(self.buf, 1, self.gap.start)
        \o SubSeq(self.buf, self.gap.end + 1, capacity(self))

\* Deref: the slice from_raw_parts(ptr, len())
deref(self) == SubSeq(self.buf, 1, len(self))

\* a slip: the iterator starts past the first element
into_iter_mut(self) == [buf |-> self, pos |-> 1]

\* IntoIterator for &GapVec
into_iter(self) == [buf |-> self, pos |-> 0]

\* Iter::next: the iterator after the call and the item (a slot content)
iter_next(it) ==
    IF it.pos >= len(it.buf)
    THEN [it |-> it, item |-> None]
    ELSE [it |-> [buf |-> it.buf, pos |-> it.pos + 1],
          item |-> get(it.buf, (it.pos + 1) - 1)]

\* a for loop over the buffer (as in get_string): the items up to the first None
RECURSIVE iterate(_)
iterate(it) ==
    LET r == iter_next(it)
    IN  IF r.item = None THEN << >> ELSE << r.item[1] >> \o iterate(r.it)

\* ------------------------------------------------------- ghost operators

\* plain array: insert v at index p (0-based), remove at index p
InsertAt(s, p, v) ==
    LET q == IF p > Len(s) THEN Len(s) ELSE p
    IN  SubSeq(s, 1, q) \o << v >> \o SubSeq(s, q + 1, Len(s))

RemoveAt(s, p) ==
    IF p < Len(s) THEN SubSeq(s, 1, p) \o SubSeq(s, p + 2, Len(s)) ELSE s

\* the logical sequence: the slots get(0) .. get(len-1) refer to
Logical(self) == [i \in 1 .. len(self) |-> space(self, index_to_raw(self, i - 1))]

Call(op, arg, ret, panicked, grew, oob) ==
    [op |-> op, arg |-> arg, ret |-> ret, panicked |-> panicked,
     grew |-> grew, oob |-> oob]

\* ---------------------------------------------------------------- Init
Init ==
    /\ \E o \in {[ctor |-> "new", n |-> 0]}
                 \cup {[ctor |-> "with_capacity", n |-> c] : c \in 0 .. MaxInitCap} :
          /\ origin = o
          /\ LET s == IF o.ctor = "new" THEN new ELSE with_capacity(o.n)
             IN  buf = s.buf /\ gap = s.gap
          /\ last = Call(o.ctor, o.n, None, FALSE, FALSE, FALSE)
    /\ alive = TRUE
    /\ nIns = 0
    /\ nRem = 0
    /\ nSetPos = 0
    /\ arr = << >>
    /\ removed = << >>
    /\ dropped = << >>
    /\ hist = "ins"

\* -------------------------------------------------------------- actions
InsertStep(bound) ==
    /\ alive
    /\ nIns < bound
    /\ LET e == nIns + 1
           s == insert(Self, e)
       IN  /\ buf' = s.buf
           /\ gap' = s.gap
           /\ last' = Call("insert", e, None, FALSE, gap_is_empty(Self), FALSE)
           /\ arr' = InsertAt(arr, position(Self), e)
    /\ nIns' = nIns + 1
    /\ hist' = IF hist = "ins" THEN "ins" ELSE "other"
    /\ UNCHANGED << alive, origin, nRem, nSetPos, removed, dropped >>

Insert == InsertStep(MaxIns)

RECURSIVE InsertAll(_, _, _)
InsertAll(s, p, items) ==
    IF items = << >>
    THEN s
    ELSE InsertAll(InsertAt(s, p, Head(items)), p + 1, Tail(items))

InsertIterStep(bound) ==
    /\ alive
    /\ \E k \in 0 .. MaxIter :
          /\ nIns + k <= bound
          /\ LET items == [i \in 1 .. k |-> nIns + i]
                 s == insert_iter(Self, items)
             IN  /\ buf' = s.buf
                 /\ gap' = s.gap
                 /\ last' = Call("insert_iter", k, None, FALSE,
                                 capacity(s) # capacity(Self), FALSE)
                 /\ arr' = InsertAll(arr, position(Self), items)
          /\ nIns' = nIns + k
    /\ hist' = IF hist = "ins" THEN "ins" ELSE "other"
    /\ UNCHANGED << alive, origin, nRem, nSetPos, removed, dropped >>

InsertIter == InsertIterStep(MaxIns)

SetPosition ==
    /\ alive
    /\ nSetPos < MaxSetPos
    /\ nSetPos' = nSetPos + 1
    /\ \E pos \in (0 .. len(Self) + 1) \cup {Word - 1} :
          LET r == set_position(Self, pos)
          IN  /\ buf' = r.self.buf
              /\ gap' = r.self.gap
              /\ last' = Call("set_position", pos, None, r.panicked, FALSE, r.oob)
              /\ hist' = IF hist = "ins" /\ pos = 0 /\ ~r.panicked
                         THEN "pos0" ELSE "other"
    /\ UNCHANGED << alive, origin, nIns, nRem, arr, removed, dropped >>

Remove ==
    /\ alive
    /\ LET r == remove(Self)
       IN  /\ buf' = r.self.buf
           /\ gap' = r.self.gap
           /\ IF r.ret = None
              THEN /\ last' = Call("remove", 0, None, FALSE, FALSE, FALSE)
                   /\ UNCHANGED << removed, arr, nRem >>
              ELSE \E x \in Observe(r.ret[1]) :
                      /\ last' = Call("remove", 0, Some(x), FALSE, FALSE, FALSE)
                      /\ removed' = Append(removed, r.ret[1])
                      /\ arr' = RemoveAt(arr, position(Self))
                      /\ nRem' = nRem + 1
    /\ hist' = IF hist \in {"pos0", "rem"} THEN "rem" ELSE "other"
    /\ UNCHANGED << alive, origin, nIns, nSetPos, dropped >>

\* get(index) for every index of the machine word.  index + gap.len() that
\* does not fit the word panics in a build with overflow checks and wraps in
\* a build without.
Get ==
    /\ alive
    /\ \E index \in 0 .. Word - 1 :
          \/ /\ index_overflows(Self, index)
             /\ last' = Call("get", index, None, TRUE, FALSE, FALSE)
          \/ LET r == get(Self, index)
             IN  IF r = None
                 THEN last' = Call("get", index, None, FALSE, FALSE, FALSE)
                 ELSE \E x \in Observe(r[1]) :
                         last' = Call("get", index, Some(x), FALSE, FALSE, FALSE)
    /\ UNCHANGED << buf, gap, alive, origin, nIns, nRem, nSetPos, arr, removed, dropped,
                    hist >>

Drop ==
    /\ alive
    /\ alive' = FALSE
    /\ dropped' = drop(Self)
    /\ last' = Call("drop", 0, None, FALSE, FALSE, FALSE)
    /\ UNCHANGED << buf, gap, origin, nIns, nRem, nSetPos, arr, removed, hist >>

Next == Insert \/ InsertIter \/ SetPosition \/ Remove \/ Drop

Spec == Init /\ [][Next]_vars

\* The same program, with get among the calls.
NextGet == Insert \/ InsertIter \/ SetPosition \/ Remove \/ Get \/ Drop

SpecGet == Init /\ [][NextGet]_vars

\* The same program, with iteration over &GapVec among the calls.  The
\* result of the call is the sequence of the slots the items refer to.
Iterate ==
    /\ alive
    /\ last' = Call("iter", 0, iterate(into_iter(Self)), FALSE, FALSE, FALSE)
    /\ UNCHANGED << buf, gap, alive, origin, nIns, nRem, nSetPos, arr, removed, dropped,
                    hist >>

NextIter == Insert \/ InsertIter \/ SetPosition \/ Remove \/ Iterate

SpecIter == Init /\ [][NextIter]_vars

\* insert on an empty gap whose allocation fails: the call does not return.
InsertAllocFails ==
    /\ alive
    /\ gap_is_empty(Self)
    /\ LET s == alloc_failed(Self)
       IN  /\ buf' = s.buf
           /\ gap' = s.gap
    /\ last' = Call("insert", nIns + 1, None, TRUE, FALSE, FALSE)
    /\ hist' = "other"
    /\ UNCHANGED << alive, origin, nIns, nRem, nSetPos, arr, removed, dropped >>

NextAlloc == Insert \/ InsertIter \/ InsertAllocFails \/ SetPosition \/ Remove \/ Drop

SpecAlloc == Init /\ [][NextAlloc]_vars

\* The round-trip scenario: new(), inserts, set_position(0), removes.
TripInit == Init /\ origin.ctor = "new"

TripInsert == InsertStep(MaxTripIns) /\ hist' = "ins"

TripInsertIter == InsertIterStep(MaxTripIns) /\ hist' = "ins"

TripSetPosition == SetPosition /\ hist' = "pos0"

TripRemove == Remove /\ hist' = "rem"

NextRoundTrip == TripInsert \/ TripInsertIter \/ TripSetPosition \/ TripRemove \/ Drop

SpecRoundTrip == TripInit /\ [][NextRoundTrip]_vars

TypeOK ==
    /\ gap.start \in Nat /\ gap.end \in Nat
    /\ gap.start <= gap.end /\ gap.end <= Len(buf)
    /\ Len(buf) < Word

\* ---------------------------------------------------------------- claims

\* number of occurrences of e in the sequence q
Count(q, e) == Cardinality({i \in 1 .. Len(q) : q[i] = e})

\* C1: on a buffer made by new(), after any set_position / insert /
\* insert_iter calls the logical sequence get(0) .. get(len-1) equals the
\* plain array that received each value at the index the cursor had.
C1_OrderPreservation ==
    (origin.ctor = "new" /\ nRem = 0) => Logical(Self) = arr

\* C2: in the scenario new(), inserts of e1..en, set_position(0), removes:
\* the removes return Some(e1), Some(e2), ... in order, and None only once
\* all n elements have been returned.
C2_RoundTrip ==
    (hist = "rem" /\ last.op = "remove") =>
        /\ Len(removed) <= nIns
        /\ removed = [i \in 1 .. Len(removed) |-> i]
        /\ last.ret # None => last.ret = Some(Len(removed))
        /\ last.ret = None => Len(removed) = nIns

C2_Witness ==
    /\ hist = "rem"
    /\ last.op = "remove"
    /\ nIns > MinCapacity
    /\ capacity(Self) = GrowthFactor * MinCapacity
    /\ Len(removed) = nIns
    /\ last.ret = Some(nIns)

\* C3: set_position(pos) panics exactly when pos > len(), and a call that
\* panics leaves the storage, its capacity and the gap as they were.
C3_SetPositionPanics ==
    [][last'.op = "set_position" =>
          /\ last'.panicked <=> last'.arg > len(Self)
          /\ last'.panicked => buf' = buf /\ gap' = gap]_vars

C3_Witness ==
    /\ last.op = "set_position"
    /\ last.panicked
    /\ last.arg = len(Self) + 1
    /\ 0 < position(Self) /\ position(Self) < len(Self)

\* C4: with_capacity(n) returns a buffer of capacity n whose gap is [0, n):
\* len() = 0 and position() = 0.
C4_WithCapacity ==
    last.op = "with_capacity" =>
        /\ capacity(Self) = last.arg
        /\ gap = [start |-> 0, end |-> last.arg]
        /\ len(Self) = 0
        /\ position(Self) = 0

\* C5: after with_capacity(n), while only inserts have been made and at most
\* n of them, the capacity is still n and the last call did not grow.
C5_NoGrowthWithinCapacity ==
    (origin.ctor = "with_capacity" /\ hist = "ins" /\ nIns <= origin.n) =>
        capacity(Self) = origin.n /\ ~last.grew

\* C6: len() is the number of insert calls minus the number of remove calls
\* that returned Some.
C6_LenCountsElements ==
    alive => len(Self) = nIns - nRem

\* C7: remove() with position() < len() returns the element at logical index
\* position(), len() drops by one, position() and capacity() stay, the other
\* elements keep their order; with position() = len() it returns None and
\* changes nothing.
C7_Remove ==
    [][last'.op = "remove" =>
          IF position(Self) < len(Self)
          THEN /\ get(Self, position(Self)) # None
               /\ \E x \in Observe(get(Self, position(Self))[1]) :
                     last'.ret = Some(x)
               /\ len(Self)' = len(Self) - 1
               /\ position(Self)' = position(Self)
               /\ capacity(Self)' = capacity(Self)
               /\ Logical(Self)' = RemoveAt(Logical(Self), position(Self))
          ELSE /\ last'.ret = None
               /\ buf' = buf
               /\ gap' = gap]_vars

C7_Witness ==
    /\ last.op = "remove"
    /\ last.ret # None
    /\ origin.ctor = "new"
    /\ 0 < position(Self) /\ position(Self) < len(Self)

\* C8: insert(v) with cursor p and logical sequence s yields
\* s[0..p) ++ [v] ++ s[p..), position() = p + 1 and len() = |s| + 1, with or
\* without growth.
C8_Insert ==
    [][last'.op = "insert" =>
          /\ Logical(Self)' = InsertAt(Logical(Self), position(Self), last'.arg)
          /\ position(Self)' = position(Self) + 1
          /\ len(Self)' = len(Self) + 1]_vars

C8_Witness ==
    /\ last.op = "insert"
    /\ last.grew
    /\ capacity(Self) > MinCapacity
    /\ 1 < position(Self) /\ position(Self) < len(Self)

\* C9: for every index of the machine word get(index) returns the index-th
\* logical element when index < len() and None when index >= len().
C9_GetBoundsChecked ==
    last.op = "get" =>
        /\ ~last.panicked
        /\ IF last.arg < len(Self)
           THEN \E x \in Observe(Logical(Self)[last.arg + 1]) : last.ret = Some(x)
           ELSE last.ret = None

\* C10: on a buffer made by new(), every slot outside the gap holds an
\* element that was inserted and not removed, no element is in two such
\* slots, and after teardown every inserted element has been destroyed
\* exactly once, by remove() or by Drop, which drops no uninitialized slot.
C10_ExclusiveOwnership ==
    origin.ctor = "new" =>
        /\ \A i \in 1 .. len(Self) :
              /\ Logical(Self)[i] \in 1 .. nIns
              /\ Count(removed, Logical(Self)[i]) = 0
              /\ Count(Logical(Self), Logical(Self)[i]) = 1
        /\ ~alive =>
              /\ Count(dropped, Uninit) = 0
              /\ \A e \in 1 .. nIns : Count(removed, e) + Count(dropped, e) = 1

\* every logical slot holds an element that was written (no indeterminate bits)
Initialized(self) == \A i \in 1 .. len(self) : Logical(self)[i] # Uninit

\* C11 as stated: an insert that triggers growth leaves get(i) unchanged for
\* every i < len() (len() taken before the insert) and get at the insertion
\* index returns the new element.
C11_GrowthKeepsEveryIndex ==
    [][(last'.op = "insert" /\ last'.grew /\ Initialized(Self)) =>
          /\ \A i \in 1 .. len(Self) : Logical(Self)'[i] = Logical(Self)[i]
          /\ Logical(Self)'[position(Self) + 1] = last'.arg]_vars

\* C11 as amended: an insert at cursor p that triggers growth leaves get(i)
\* unchanged for i < p, moves the element of index i to index i + 1 for
\* p <= i < len(), and get(p) returns the new element.
C11_GrowthKeepsElements ==
    [][(last'.op = "insert" /\ last'.grew) =>
          /\ \A i \in 1 .. len(Self) :
                Logical(Self)'[IF i <= position(Self) THEN i ELSE i + 1]
                    = Logical(Self)[i]
          /\ Logical(Self)'[position(Self) + 1] = last'.arg]_vars

C11_Witness ==
    /\ last.op = "insert"
    /\ last.grew
    /\ Initialized(Self)
    /\ 1 < position(Self) /\ position(Self) < len(Self)

\* C12: no step leaves capacity() smaller than it was before the step.
C12_CapacityNeverDecreases ==
    [][capacity(Self)' >= capacity(Self)]_vars

C12_Witness ==
    /\ capacity(Self) > GrowthFactor * origin.n
    /\ capacity(Self) > MinCapacity
    /\ nRem > 0
    /\ nSetPos > 0

\* C13: set_position(len()) makes the dereferenced slice storage[0..len())
\* equal to the logical sequence the buffer held before the call.
C13_FlatSliceAtTail ==
    [][(last'.op = "set_position" /\ ~last'.panicked /\ last'.arg = len(Self)) =>
          deref(Self)' = Logical(Self)]_vars

\* C14: an iteration yields exactly len() items, the i-th being the element
\* at logical index i, wherever the gap is; it starts at index 0 each time
\* and leaves the buffer unchanged.
C14_Iteration ==
    [][last'.op = "iter" =>
          /\ Len(last'.ret) = len(Self)
          /\ last'.ret = Logical(Self)
          /\ buf' = buf
          /\ gap' = gap]_vars

C14_Witness ==
    /\ last.op = "iter"
    /\ Len(last.ret) >= 3
    /\ Initialized(Self)
    /\ 0 < position(Self) /\ position(Self) < len(Self)
    /\ range_len(gap) > 0

\* C15: set_position(pos) with gap_start < pos <= len() and d = pos - gap_start
\* moves the d elements at raw offsets [gap_end, gap_end + d) to
\* [gap_start, gap_start + d); afterwards gap_start = pos, the gap length is
\* unchanged and the logical sequence is the same.
C15_RightwardMove ==
    [][(last'.op = "set_position" /\ ~last'.panicked /\ last'.arg > gap.start) =>
          /\ \A k \in 0 .. (last'.arg - gap.start) - 1 :
                buf'[gap.start + k + 1] = space(Self, gap.end + k)
          /\ gap'.start = last'.arg
          /\ range_len(gap') = range_len(gap)
          /\ Logical(Self)' = Logical(Self)]_vars

\* C16: on a buffer made by new(), set_position reads and writes only raw
\* offsets in [0, capacity()).
C16_SetPositionInBounds ==
    (origin.ctor = "new" /\ last.op = "set_position") => ~last.oob

\* C17: after every call 0 <= gap_start <= gap_end <= capacity.
C17_GapBounds ==
    /\ 0 <= gap.start
    /\ gap.start <= gap.end
    /\ gap.end <= capacity(Self)

C17_Witness ==
    /\ 0 < gap.start /\ gap.start < gap.end /\ gap.end < capacity(Self)
    /\ last.op = "remove"
    /\ nSetPos > 0
    /\ capacity(Self) > MinCapacity

Max(a, b) == IF a >= b THEN a ELSE b

\* C18 as stated: an insert on an empty gap with capacity c leaves the
\* capacity max(4, 2 * c); the gap before the write is
\* [gap_start, newCapacity - (c - gap_end)).
C18_GrowthIsMaxOfFourAndDouble ==
    [][(last'.op = "insert" /\ last'.grew) =>
          /\ capacity(Self)' = Max(4, 2 * capacity(Self))
          /\ gap'.start = gap.start + 1
          /\ gap'.end = capacity(Self)' - (capacity(Self) - gap.end)]_vars

\* C18 as amended: the capacity after the growth is 2 * c, or 4 when c = 0;
\* the gap before the write is [gap_start, newCapacity - (c - gap_end)).
C18_GrowthDoubles ==
    [][(last'.op = "insert" /\ last'.grew) =>
          /\ capacity(Self)' = IF capacity(Self) = 0 THEN 4 ELSE 2 * capacity(Self)
          /\ gap'.start = gap.start + 1
          /\ gap'.end = capacity(Self)' - (capacity(Self) - gap.end)]_vars

C18_Witness ==
    /\ last.op = "insert"
    /\ last.grew
    /\ capacity(Self) = 2
    /\ gap.end < capacity(Self)

\* C19: an insert whose allocation fails leaves the storage, the capacity
\* and the gap as they were before the call.
C19_AllocFailureKeepsBuffer ==
    [][(last'.op = "insert" /\ last'.panicked) =>
          /\ buf' = buf
          /\ gap' = gap
          /\ capacity(Self)' = capacity(Self)]_vars

C19_Witness ==
    /\ last.op = "insert"
    /\ last.panicked
    /\ capacity(Self) >= MinCapacity
    /\ 0 < position(Self) /\ position(Self) < len(Self)

\* C20: for every index of the machine word, the offset index_to_raw returns
\* is not the offset of a gap slot.
C20_IndexToRawAvoidsGap ==
    (last.op = "get" /\ ~last.panicked) =>
        LET r == index_to_raw(Self, last.arg)
        IN  r < gap.start \/ r >= gap.end

====
